---- MODULE Spec2Model ----
(***************************************************************************)
(* Trigger and voice-excitation logic of the Karplus-Strong firmwares:     *)
(*   KarplusStrongMachine.cpp          manual (level) trigger on pot A3    *)
(*   KarplusStrongMachine_DualMode.cpp auto trigger / manual trigger       *)
(*   DigitalKalimba.cpp                seven buttons, seven voices         *)
(*   Fixed / Monitored / Final         auto trigger, interval from pot A3  *)
(*                                                                         *)
(* Control readings (AnalogControl::Value(), a float in [0,1]) are         *)
(* integers in thousandths: 1000 is 1.0.  One audio callback is a          *)
(* begin step (controls read and mapped, everything before the sample      *)
(* loop) followed by BLOCK_SIZE sample steps (one iteration of the sample  *)
(* loop each); the kalimba's callback is a single step that unrolls its    *)
(* sample loop.  The main loop runs only between callbacks: the callback   *)
(* is an interrupt and is never preempted by the main loop.                *)
(***************************************************************************)
EXTENDS Integers, Sequences, FiniteSets, TLC

\* Readings of pot A3 the environment may present, in thousandths.
PotLevels == {0, 300, 500, 700, 1000}

\* hw.SetAudioBlockSize(4)
BLOCK_SIZE == 4

\* const uint32_t TRIGGER_LOCKOUT = 4800
TRIGGER_LOCKOUT == 4800

\* Samples since the last excitation are counted up to MaxGap.
MaxGap == 5002

\* const uint32_t AUTO_TRIGGER_INTERVAL = 96000
AUTO_TRIGGER_INTERVAL == 96000

\* Samples since the last automatic pluck are counted up to MaxRun.
MaxRun == 96002

\* Callbacks that may preempt the main loop between the two assignments of
\* the mode toggle (two adjacent stores; a callback comes every 83 us).
MaxPreempt == 1

\* Readings of pot A3 presented to the dual-mode firmware, in thousandths.
DualPotLevels == {0, 1000}

\* Readings of the speed pot (controls[3]) presented to the auto-trigger
\* variants, in thousandths.
AutoPotLevels == {0, 250}

AutoFirmwares == {"Fixed", "Monitored", "Final"}

NUM_STRINGS == 7                \* DigitalKalimba.cpp:60
DEMO_INTERVAL == 24000          \* DigitalKalimba.cpp:171
POT_MOVE_THRESHOLD == 20        \* DigitalKalimba.cpp:176 (0.02f)
SCAN_DIVIDER == 12              \* DigitalKalimba.cpp:218 (callback_count >= 12)

Voices == 0 .. (NUM_STRINGS - 1)

\* The buttons the player uses; the other five are never touched.
Pressable == {0, 1}

\* Readings of pot A0 presented to the kalimba, in thousandths; the other
\* five pots rest at 0.0.
KalPotLevels == {0, 500}

\* Readings of pot A0 while a knob is turned slowly under the running demo,
\* in thousandths: steps of 0.015, below POT_MOVE_THRESHOLD.
KnobLevels == {0, 500, 515, 530}

\* Callbacks of the running demo during which the knob is followed.
MaxKnobRun == 12

\* While the demo plays, the player touches a button or the pot only within
\* MaxLead callbacks of a demo note (before or after it is due).
MaxLead == 24

\* Cap of the count of scans since a voice was last excited.
MaxSince == 3

\* Pot readings for the control mapping, in thousandths; -200 and 1300 are
\* readings outside [0,1].
RawLevels == {-200, 0, 500, 1000, 1300}

\* Readings that select each of the five scales and octaves, and two
\* readings outside [0,1].
ZoneLevels == {-200, 0, 250, 500, 700, 1000, 1300}

\* Values an LFO's Process() returns, in thousandths (-1.0, 0.0, 1.0).
LfoLevels == {-1000, 0, 1000}

Pots == 0 .. 5

NUM_SCALES == 5                 \* DigitalKalimba.cpp:101

DISPLAY_UPDATE_INTERVAL == 4800 \* DigitalKalimba.cpp:186, Final:128

\* The main loop gets to run before display_update_timer passes MaxTimer:
\* no callback starts with the timer at MaxTimer or above.
MaxTimer == 4808

\* Readings of the pitch pot presented in the display model, in thousandths.
DispPotLevels == {0, 1000}

\* Readings of the depth pot A5 presented where the display's change test
\* is examined, in thousandths: steps of 0.008 around 0.5.
DepthPotLevels == {500, 508, 516}

DispFirmwares == {"Final", "DigitalKalimba"}

VARIABLES
    firmware,   \* which firmware image runs on the board
    ksm,        \* globals of KarplusStrongMachine.cpp
    dual,       \* globals of KarplusStrongMachine_DualMode.cpp
    auto,       \* globals of the auto-trigger variants (Fixed, Monitored, Final)
    kal,        \* globals of DigitalKalimba.cpp
    kobs,       \* what the seven strings saw during the last kalimba callback
    ctl,        \* control mapping: pots, mapped parameters, what the voices got
    disp,       \* display state and main-loop position (Final, DigitalKalimba)
    dobs,       \* what the display and the two contexts did so far
    mix,        \* the signal path of the sample being processed
    led,        \* the mode LED of the dual-mode firmware
    notes,      \* the kalimba's note display flags and timers
    old,        \* buttons and flags of the older kalimba variant
    obs         \* what str.Process() saw on the sample processed last

vars ==
    <<firmware, ksm, dual, auto, kal, kobs, ctl, disp, dobs, mix, led, notes,
      old, obs>>

----------------------------------------------------------------------------
(* Observation of the sample processed last (history, not program state).  *)
(*   mode        "manual" or "auto": the trigger path the sample took      *)
(*   fired       the trigger argument handed to Process()                  *)
(*   active      the excite condition (A3 above the threshold)             *)
(*   rose        the excite condition was false on the sample before       *)
(*               and is true on this one                                   *)
(*   held        the excite condition has been true on every sample        *)
(*               since the last excitation                                 *)
(*   lock_start  the lockout counter at the start of the sample            *)
(*   pot         the A3 reading in force on this sample                    *)
(*   prev_pot    the A3 reading in force on the sample before              *)
(*   seen        an excitation happened before this sample (since the      *)
(*               start, or since the mode was last switched)               *)
(*   dist        samples from the previous excitation (or from the start,  *)
(*               or from the last mode switch) to this sample, capped      *)
(*   gap         dist, or 0 when this sample excited                       *)
(*   steady      trigger_interval has not changed since the previous       *)
(*               excitation (or since the start)                           *)
(*   was_steady  steady, as it was when this sample began                  *)
(*   switched    the dual-mode firmware has been switched from manual back *)
(*               to auto-trigger mode since the start                      *)

ObsInit ==
    [mode |-> "none", fired |-> FALSE, active |-> FALSE, rose |-> FALSE,
     held |-> FALSE, lock_start |-> 0, pot |-> 0, prev_pot |-> 0,
     seen |-> FALSE, seen_now |-> FALSE, dist |-> 0, gap |-> 0,
     steady |-> TRUE, was_steady |-> TRUE, switched |-> FALSE]

Min(a, b) == IF a < b THEN a ELSE b

Observe(cap, mode, fired, active, lock, pot) ==
    [mode |-> mode, fired |-> fired, active |-> active,
     rose |-> active /\ ~obs.active,
     held |-> IF fired THEN TRUE ELSE obs.held /\ active,
     lock_start |-> lock, pot |-> pot, prev_pot |-> obs.pot,
     seen |-> obs.seen_now, seen_now |-> obs.seen_now \/ fired,
     dist |-> Min(obs.gap + 1, cap),
     gap |-> IF fired THEN 0 ELSE Min(obs.gap + 1, cap),
     steady |-> obs.steady, was_steady |-> obs.steady,
     switched |-> obs.switched]

----------------------------------------------------------------------------
(* KarplusStrongMachine.cpp                                                *)

\* excitation_threshold = 0.2f + (pot_excite * 0.4f)
KsmExcitationThreshold(pot) == 200 + (pot * 4) \div 10

\* bool trigger_active = pot_excite > excitation_threshold
TriggerActive(pot, threshold) == pot > threshold

\* Faulty variant: the lockout test is dropped from the edge detector.
TriggerEdge_NoLockout(active, last, timer) == active /\ ~last

\* bool trigger_edge = trigger_active && !last_trigger && (trigger_timer == 0)
TriggerEdge(active, last, timer) == active /\ ~last /\ timer = 0

\* Faulty variant: the lockout is loaded one block short.
LockoutStep_Short(edge, timer) ==
    LET t == IF edge THEN TRIGGER_LOCKOUT - BLOCK_SIZE ELSE timer
    IN  IF t > 0 THEN t - 1 ELSE t

\* if (trigger_edge) trigger_timer = TRIGGER_LOCKOUT;
\* if (trigger_timer > 0) trigger_timer--;
LockoutStep(edge, timer) ==
    LET t == IF edge THEN TRIGGER_LOCKOUT ELSE timer
    IN  IF t > 0 THEN t - 1 ELSE t

KsmInit ==
    [pot_excite |-> 0, excitation_threshold |-> 800,
     last_trigger |-> FALSE, trigger_timer |-> 0, i |-> BLOCK_SIZE]

\* The callback up to the sample loop: controls are read and mapped.
KsmCallbackBegin ==
    /\ firmware = "KarplusStrongMachine"
    /\ ksm.i = BLOCK_SIZE
    /\ \E pot \in PotLevels :
         ksm' = [ksm EXCEPT !.pot_excite = pot,
                            !.excitation_threshold = KsmExcitationThreshold(pot),
                            !.i = 0]
    /\ UNCHANGED <<firmware, notes, old, mix, led, disp, dobs, kal, kobs, ctl, dual, auto, obs>>

\* One iteration of the sample loop.
KsmSample ==
    /\ firmware = "KarplusStrongMachine"
    /\ ksm.i < BLOCK_SIZE
    /\ LET trigger_active == TriggerActive(ksm.pot_excite, ksm.excitation_threshold)
           trigger_edge == TriggerEdge(trigger_active, ksm.last_trigger,
                                       ksm.trigger_timer)
       IN  /\ ksm' = [ksm EXCEPT !.last_trigger = trigger_active,
                                 !.trigger_timer = LockoutStep(trigger_edge,
                                                               ksm.trigger_timer),
                                 !.i = ksm.i + 1]
           /\ obs' = Observe(MaxGap, "manual", trigger_edge, trigger_active,
                             ksm.trigger_timer, ksm.pot_excite)
    /\ UNCHANGED <<firmware, notes, old, mix, led, disp, dobs, kal, kobs, ctl, dual, auto>>

KsmNext == KsmCallbackBegin \/ KsmSample

----------------------------------------------------------------------------
(* KarplusStrongMachine_DualMode.cpp                                       *)

\* excitation_threshold = 0.6f + (pot_excite * 0.4f)
DualExcitationThreshold(pot) == 600 + (pot * 4) \div 10

\* Faulty variant: the interval test is strict.
AutoTriggerDue_Strict(timer) == timer > AUTO_TRIGGER_INTERVAL

\* auto_trigger_timer++; if (auto_trigger_timer >= AUTO_TRIGGER_INTERVAL) ...
AutoTriggerDue(timer) == timer >= AUTO_TRIGGER_INTERVAL

\* main_pc: "poll" at the top of the main loop, "reset_auto" / "reset_manual"
\* between the two assignments of the mode toggle.
DualInit ==
    [current_mode |-> "MODE_AUTO_TRIGGER", auto_trigger_timer |-> 0,
     last_manual_trigger |-> FALSE, manual_trigger_lockout |-> 0,
     pot_excite |-> 0, excitation_threshold |-> 800,
     i |-> BLOCK_SIZE, main_pc |-> "poll", preempts |-> 0]

\* The callback up to the sample loop: controls are read and mapped.
DualCallbackBegin ==
    /\ firmware = "DualMode"
    /\ dual.i = BLOCK_SIZE
    /\ dual.main_pc = "poll" \/ dual.preempts < MaxPreempt
    /\ \E pot \in DualPotLevels :
         dual' = [dual EXCEPT !.pot_excite = pot,
                              !.excitation_threshold = DualExcitationThreshold(pot),
                              !.preempts = IF dual.main_pc = "poll" THEN 0
                                           ELSE dual.preempts + 1,
                              !.i = 0]
    /\ UNCHANGED <<firmware, notes, old, mix, led, disp, dobs, kal, kobs, ctl, ksm, auto, obs>>

\* One iteration of the sample loop, auto-trigger branch.
DualSampleAuto ==
    /\ firmware = "DualMode"
    /\ dual.i < BLOCK_SIZE
    /\ dual.current_mode = "MODE_AUTO_TRIGGER"
    /\ LET timer == dual.auto_trigger_timer + 1
           trigger == AutoTriggerDue(timer)
       IN  /\ dual' = [dual EXCEPT !.auto_trigger_timer = IF trigger THEN 0 ELSE timer,
                                   !.i = dual.i + 1]
           /\ obs' = Observe(MaxRun, "auto", trigger, FALSE,
                             dual.manual_trigger_lockout, dual.pot_excite)
    /\ UNCHANGED <<firmware, notes, old, mix, led, disp, dobs, kal, kobs, ctl, ksm, auto>>

\* One iteration of the sample loop, manual branch.
DualSampleManual ==
    /\ firmware = "DualMode"
    /\ dual.i < BLOCK_SIZE
    /\ dual.current_mode = "MODE_MANUAL"
    /\ LET trigger_active == TriggerActive(dual.pot_excite, dual.excitation_threshold)
           trigger_edge == TriggerEdge(trigger_active, dual.last_manual_trigger,
                                       dual.manual_trigger_lockout)
       IN  /\ dual' = [dual EXCEPT !.last_manual_trigger = trigger_active,
                                   !.manual_trigger_lockout =
                                        LockoutStep(trigger_edge,
                                                    dual.manual_trigger_lockout),
                                   !.i = dual.i + 1]
           /\ obs' = Observe(MaxGap, "manual", trigger_edge, trigger_active,
                             dual.manual_trigger_lockout, dual.pot_excite)
    /\ UNCHANGED <<firmware, notes, old, mix, led, disp, dobs, kal, kobs, ctl, ksm, auto>>

\* Main loop, boot_button.RisingEdge(): the first assignment of the toggle.
\* The observation starts a new stretch: distances are counted per mode.
DualToggleMode ==
    /\ firmware = "DualMode"
    /\ dual.i = BLOCK_SIZE
    /\ dual.main_pc = "poll"
    /\ dual' = IF dual.current_mode = "MODE_AUTO_TRIGGER"
               THEN [dual EXCEPT !.current_mode = "MODE_MANUAL",
                                 !.main_pc = "reset_auto", !.preempts = 0]
               ELSE [dual EXCEPT !.current_mode = "MODE_AUTO_TRIGGER",
                                 !.main_pc = "reset_manual", !.preempts = 0]
    /\ obs' = [obs EXCEPT !.seen_now = FALSE, !.gap = 0, !.held = FALSE,
                           !.switched = @ \/ dual.current_mode = "MODE_MANUAL"]
    /\ UNCHANGED <<firmware, notes, old, mix, led, disp, dobs, kal, kobs, ctl, ksm, auto>>

\* Faulty variant: the auto timer is left as it was.
ToggleReset_Keep(d) ==
    IF d.main_pc = "reset_auto"
    THEN [d EXCEPT !.main_pc = "poll"]
    ELSE [d EXCEPT !.manual_trigger_lockout = 0, !.main_pc = "poll"]

\* auto_trigger_timer = 0; after the switch to manual mode,
\* manual_trigger_lockout = 0; after the switch to auto-trigger mode.
ToggleReset(d) ==
    IF d.main_pc = "reset_auto"
    THEN [d EXCEPT !.auto_trigger_timer = 0, !.main_pc = "poll"]
    ELSE [d EXCEPT !.manual_trigger_lockout = 0, !.main_pc = "poll"]

\* Main loop: the second assignment of the toggle.
DualToggleReset ==
    /\ firmware = "DualMode"
    /\ dual.i = BLOCK_SIZE
    /\ dual.main_pc # "poll"
    /\ dual' = ToggleReset(dual)
    /\ UNCHANGED <<firmware, notes, old, mix, led, disp, dobs, kal, kobs, ctl, ksm, auto, obs>>

DualNext ==
    \/ DualCallbackBegin
    \/ DualSampleAuto
    \/ DualSampleManual
    \/ DualToggleMode
    \/ DualToggleReset

----------------------------------------------------------------------------
(* The auto-trigger variants: diagnostics/KarplusStrongMachine_Fixed.cpp,  *)
(* diagnostics/KarplusStrongMachine_Monitored.cpp and the final firmware   *)
(* with OLED.  Their trigger code is the same line for line.               *)

\* trigger_speed = 0.1f * powf(100.0f, pot_speed);
\* trigger_interval = (uint32_t)(trigger_speed * 48000.0f);
\* tabulated in float arithmetic for the readings of AutoPotLevels.
TriggerInterval(pot) ==
    CASE pot = 0   -> 4800
      [] pot = 250 -> 15178

\* Faulty variant: the counter has to pass the interval.
TriggerDue_Strict(timer, interval) == timer > interval

\* if (trigger_timer >= trigger_interval)
TriggerDue(timer, interval) == timer >= interval

AutoInit ==
    [trigger_timer |-> 0, trigger_interval |-> 96000, i |-> BLOCK_SIZE]

\* Entry of AudioCallback: the speed pot is read and mapped to the interval.
AutoCallbackBegin ==
    /\ firmware \in AutoFirmwares
    /\ auto.i = BLOCK_SIZE
    /\ \E pot_speed \in AutoPotLevels :
         /\ auto' = [auto EXCEPT !.trigger_interval = TriggerInterval(pot_speed),
                                 !.i = 0]
         /\ obs' = [obs EXCEPT
                      !.pot = pot_speed,
                      !.steady = IF obs.mode = "none" THEN TRUE
                                 ELSE obs.steady /\
                                      TriggerInterval(pot_speed) = auto.trigger_interval]
    /\ UNCHANGED <<firmware, notes, old, mix, led, disp, dobs, kal, kobs, ctl, ksm, dual>>

\* One iteration of the sample loop.
AutoSample ==
    /\ firmware \in AutoFirmwares
    /\ auto.i < BLOCK_SIZE
    /\ LET timer   == auto.trigger_timer + 1
           trigger == TriggerDue(timer, auto.trigger_interval)
       IN  /\ auto' = [auto EXCEPT !.trigger_timer = IF trigger THEN 0 ELSE timer,
                                   !.i = auto.i + 1]
           /\ obs' = [Observe(MaxRun, "auto", trigger, FALSE, 0, obs.pot)
                         EXCEPT !.steady = trigger \/ obs.steady]
    /\ UNCHANGED <<firmware, notes, old, mix, led, disp, dobs, kal, kobs, ctl, ksm, dual>>

AutoNext == AutoCallbackBegin \/ AutoSample

----------------------------------------------------------------------------
(* DigitalKalimba.cpp.  The audio callback runs to completion (the main    *)
(* loop cannot preempt it and writes none of the fields below), so it is   *)
(* one step; the sample loop inside it is unrolled by SampleLoop.  Sets of *)
(* voices stand for the bool arrays.                                       *)

KalInit ==
    [button_state |-> {}, button_triggered |-> {}, callback_count |-> 0,
     demo_mode |-> TRUE, demo_timer |-> 0, demo_note_index |-> 0,
     last_pot_values |-> 0]

KalObsInit ==
    [scanned |-> FALSE, edges |-> {}, prev_state |-> {}, set_now |-> {},
     triggers |-> [j \in 1 .. BLOCK_SIZE |-> {}],
     hold_count |-> [b \in Pressable |-> 0],
     since |-> [b \in Pressable |-> MaxSince],
     prev_since |-> [b \in Pressable |-> MaxSince],
     pressed_ever |-> FALSE, demo_fired |-> FALSE, demo_samples |-> 0,
     demo_gap |-> 0, pot_seen |-> {}, demo_last |-> -1, demo_prev |-> -1]

Abs(x) == IF x < 0 THEN -x ELSE x

\* The control loop at the head of the callback, for pot A0.
PotCheck(k, val) ==
    IF k.demo_mode
    THEN [k EXCEPT
            !.demo_mode = ~(Abs(val - k.last_pot_values) > POT_MOVE_THRESHOLD
                            /\ k.last_pot_values > 0),
            !.last_pot_values = val]
    ELSE k

\* Faulty variant: a pressed button counts as an edge at every scan.
RisingEdges_Level(read, state) == read

\* if (current && !button_state[i])
RisingEdges(read, state) == {b \in read : b \notin state}

\* Faulty variant: a press leaves the demo running.
DemoAfterScan_Keep(demo_mode, edges) == demo_mode

\* demo_mode = false on every rising edge
DemoAfterScan(demo_mode, edges) == demo_mode /\ edges = {}

\* Button scanning, every SCAN_DIVIDER-th callback.
ButtonScan(k, read) ==
    IF k.callback_count + 1 >= SCAN_DIVIDER
    THEN LET edges == RisingEdges(read, k.button_state)
         IN  [k EXCEPT !.callback_count = 0,
                       !.button_triggered = k.button_triggered \cup edges,
                       !.demo_mode = DemoAfterScan(k.demo_mode, edges),
                       !.button_state = read]
    ELSE [k EXCEPT !.callback_count = k.callback_count + 1]

\* demo_timer++; if (demo_timer >= DEMO_INTERVAL)
DemoDue(demo_timer) == demo_timer + 1 >= DEMO_INTERVAL

\* Faulty variant: every other voice.
NextDemoNote_Skip(demo_note_index) == (demo_note_index + 2) % NUM_STRINGS

\* demo_note_index = (demo_note_index + 1) % NUM_STRINGS
NextDemoNote(demo_note_index) == (demo_note_index + 1) % NUM_STRINGS

\* Demo mode: the next note of the sequence every DEMO_INTERVAL callbacks.
DemoStep(k) ==
    IF k.demo_mode
    THEN IF DemoDue(k.demo_timer)
         THEN [k EXCEPT
                 !.button_triggered = k.button_triggered \cup {k.demo_note_index},
                 !.demo_note_index = NextDemoNote(k.demo_note_index),
                 !.demo_timer = 0]
         ELSE [k EXCEPT !.demo_timer = k.demo_timer + 1]
    ELSE k

\* Faulty variant: the pending flag is left set.
ClearFlag_Keep(flags, s, trigger) == flags

\* if (trigger) button_triggered[s] = false;
ClearFlag(flags, s, trigger) == IF trigger THEN flags \ {s} ELSE flags

\* The loop over the strings within one sample, from string s on; trig
\* collects the strings that got Process(true).
RECURSIVE VoiceLoop(_, _, _)
VoiceLoop(flags, s, trig) ==
    IF s = NUM_STRINGS
    THEN [flags |-> flags, trig |-> trig]
    ELSE LET trigger == s \in flags
         IN  VoiceLoop(ClearFlag(flags, s, trigger), s + 1,
                       IF trigger THEN trig \cup {s} ELSE trig)

\* The sample loop, from sample i on; log has one set of excited strings
\* per sample processed.
RECURSIVE SampleLoop(_, _, _)
SampleLoop(flags, i, log) ==
    IF i = BLOCK_SIZE
    THEN [button_triggered |-> flags, triggers |-> log]
    ELSE LET v == VoiceLoop(flags, 0, {})
         IN  SampleLoop(v.flags, i + 1, Append(log, v.trig))

\* The player's restraint while the demo plays (see MaxLead).
TouchAllowed(k) ==
    \/ ~k.demo_mode
    \/ k.demo_timer < MaxLead
    \/ k.demo_timer + MaxLead >= DEMO_INTERVAL

\* What pot A0 can read in this callback.  The reading matters only while
\* the demo plays.
PotReadings(k) ==
    IF k.demo_mode /\ TouchAllowed(k) THEN KalPotLevels
    ELSE {k.last_pot_values}

\* What the buttons can read in this callback.  They are read only in a
\* scanning callback.
ButtonReadings(k) ==
    IF k.callback_count + 1 >= SCAN_DIVIDER /\ TouchAllowed(k)
    THEN SUBSET Pressable
    ELSE {k.button_state}

TriggerCount(triggers, b) ==
    Cardinality({j \in 1 .. BLOCK_SIZE : b \in triggers[j]})

KalObserve(read, k3, r) ==
    LET scanned == kal.callback_count + 1 >= SCAN_DIVIDER
        edges   == IF scanned THEN {b \in read : b \notin kal.button_state}
                   ELSE {}
        fired   == k3.demo_mode /\ DemoDue(kal.demo_timer)
    IN  [scanned |-> scanned, edges |-> edges,
         prev_state |-> kal.button_state,
         set_now |-> k3.button_triggered,
         triggers |-> r.triggers,
         hold_count |->
            [b \in Pressable |->
                IF b \notin k3.button_state THEN 0
                ELSE Min(2, (IF b \in edges THEN 0 ELSE kobs.hold_count[b])
                            + TriggerCount(r.triggers, b))],
         since |->
            [b \in Pressable |->
                IF TriggerCount(r.triggers, b) > 0 THEN 0
                ELSE IF scanned THEN Min(kobs.since[b] + 1, MaxSince)
                ELSE kobs.since[b]],
         prev_since |-> kobs.since,
         pressed_ever |-> kobs.pressed_ever \/ edges # {},
         demo_fired |-> fired,
         demo_samples |-> IF fired THEN BLOCK_SIZE
                          ELSE IF k3.demo_mode
                               THEN kobs.demo_samples + BLOCK_SIZE
                               ELSE kobs.demo_samples,
         demo_gap |-> IF fired THEN kobs.demo_samples ELSE kobs.demo_gap,
         pot_seen |-> IF kal.demo_mode /\ k3.last_pot_values # 0
                      THEN kobs.pot_seen \cup {k3.last_pot_values}
                      ELSE kobs.pot_seen,
         demo_last |-> IF fired THEN kal.demo_note_index ELSE kobs.demo_last,
         demo_prev |-> IF fired THEN kobs.demo_last ELSE kobs.demo_prev]

\* One audio callback: controls, button scan, demo, sample loop; vals and
\* reads are what pot A0 and the buttons can read in it.
KalCallback(vals, reads) ==
    /\ firmware = "DigitalKalimba"
    /\ \E val \in vals, read \in reads :
            LET k1 == PotCheck(kal, val)
                k2 == ButtonScan(k1, read)
                k3 == DemoStep(k2)
                r  == SampleLoop(k3.button_triggered, 0, <<>>)
            IN  /\ kal' = [k3 EXCEPT !.button_triggered = r.button_triggered]
                /\ kobs' = KalObserve(read, k3, r)
    /\ UNCHANGED <<firmware, notes, old, mix, led, disp, dobs, ksm, dual, auto, ctl, obs>>

KalAudioCallback == KalCallback(PotReadings(kal), ButtonReadings(kal))

KalNext == KalAudioCallback

\* The first callbacks of the demo with a knob being turned and no button
\* touched.
KalKnobCallback ==
    /\ kal.demo_timer < MaxKnobRun
    /\ KalCallback(KnobLevels, {kal.button_state})

KnobNext == KalKnobCallback

----------------------------------------------------------------------------
(* Control mapping of DigitalKalimba.cpp and KarplusStrongMachine.cpp.     *)
(* Pot readings, LFO values and the pitch modulation are in thousandths,   *)
(* mapped parameters in millionths, frequencies handed to a string in      *)
(* millihertz, rounded down (table entries are in hundredths of a hertz,   *)
(* octave ratios in quarters).  The player turns at most one pot between   *)
(* two callbacks.                                                          *)

\* fclamp(in, min, max)
fclamp(in, lo, hi) == IF in < lo THEN lo ELSE IF in > hi THEN hi ELSE in

\* const float scale_frequencies[NUM_SCALES][NUM_STRINGS], in hundredths of Hz
scale_frequencies ==
    << <<19600, 22000, 24694, 29366, 32963, 39200, 44000>>,
       <<14683, 16481, 17461, 19600, 22000, 24694, 26163>>,
       <<13081, 13859, 14683, 15556, 16481, 17461, 18500>>,
       <<19600, 22000, 29366, 32963, 39200, 49388, 44000>>,
       <<13081, 16351, 19622, 22928, 26163, 29366, 32308>> >>

\* const float OCTAVE_RATIOS[5], in quarters
OCTAVE_RATIOS == <<1, 2, 4, 8, 16>>

\* const float NYQUIST_LIMIT = 24000.0f, in millihertz
NYQUIST_LIMIT == 24000000

\* float lfo_depth = 0.1f (never written in DigitalKalimba.cpp), in millionths
KAL_LFO_DEPTH == 100000

\* scale_frequencies[current_scale][s].  A read outside the table has no
\* defined value; it stands as 0 here, and C37 shows that the firmware never
\* makes one.
ScaleFreq(scale, s) ==
    IF scale + 1 \in DOMAIN scale_frequencies
    THEN scale_frequencies[scale + 1][s + 1]
    ELSE 0

\* OCTAVE_RATIOS[octave_offset + 2], with the same convention.
OctaveRatio(octave) ==
    IF octave + 2 + 1 \in DOMAIN OCTAVE_RATIOS
    THEN OCTAVE_RATIOS[octave + 2 + 1]
    ELSE 0

\* base_freq * octave_ratio, as set when the scale or the octave changes
BaseFreq(scale, octave, s) ==
    (ScaleFreq(scale, s) * OctaveRatio(octave) * 1000) \div 400

\* Faulty variant: the feedback mapping spans a full 0.4.
ReverbFeedback_Wide(pot_reverb_time) == 600000 + pot_reverb_time * 400

\* reverb_feedback = 0.6f + (pot_reverb_time * 0.399f)
ReverbFeedback(pot_reverb_time) == 600000 + pot_reverb_time * 399

\* global_decay = 0.5f + (pot_decay * 0.5f); same line for global_brightness
HalfToOne(pot) == 500000 + pot * 500

\* Faulty variant: five zones of 0.2 each, with no bounds check.
Zone_Fifths(pot) == (pot * 5) \div 1000

\* (int)(pot * 4.99f), then fclamp(.., 0, NUM_SCALES - 1)
Zone(pot) == fclamp((pot * 499) \div 100000, 0, NUM_SCALES - 1)

\* Faulty variant: the modulation replaces the pitch factor instead of
\* being added to 1.0.
PitchMod_NoUnity(vibrato_sig, lfo_depth) ==
    (vibrato_sig * (lfo_depth \div 1000)) \div 50000

\* pitch_mod = 1.0f + (vibrato_sig * 0.02f * lfo_depth), in thousandths
PitchMod(vibrato_sig, lfo_depth) ==
    1000 + (vibrato_sig * (lfo_depth \div 1000)) \div 50000

\* final_freq = base_freq * octave_ratio * pitch_mod, limited to Nyquist
FinalFreq(scale, octave, s, vibrato_sig) ==
    LET final_freq == (ScaleFreq(scale, s) * OctaveRatio(octave)
                         * PitchMod(vibrato_sig, KAL_LFO_DEPTH)) \div 400
    IN  IF final_freq > NYQUIST_LIMIT THEN NYQUIST_LIMIT ELSE final_freq

KalCtlInit ==
    [pots |-> [p \in Pots |-> 0],
     global_brightness |-> 750000, global_decay |-> 950000,
     reverb_mix |-> 300000, reverb_feedback |-> 850000,
     current_scale |-> 0, octave_offset |-> 0,
     reverb_set_feedback |-> 850000,
     str_freq |-> [s \in Voices |-> BaseFreq(0, 0, s)],
     str_damping |-> [s \in Voices |-> 950000],
     str_brightness |-> [s \in Voices |-> 750000],
     damping_calls |-> [s \in Voices |-> 0],
     brightness_calls |-> [s \in Voices |-> 0],
     i |-> BLOCK_SIZE]

\* Readings each pot of the kalimba may show.
KalPotRange(p) ==
    CASE p \in {2, 3} -> ZoneLevels
      [] p = 4 -> {0, 1000}
      [] OTHER -> RawLevels

\* The head of the callback: clamp, map, hand the feedback to the reverb,
\* retune the strings when the scale or the octave changed.
KalMapControls(c, pots) ==
    LET pot_brightness   == fclamp(pots[0], 0, 1000)
        pot_decay        == fclamp(pots[1], 0, 1000)
        pot_octave       == fclamp(pots[2], 0, 1000)
        pot_scale_select == fclamp(pots[3], 0, 1000)
        pot_reverb_mix   == fclamp(pots[4], 0, 1000)
        pot_reverb_time  == fclamp(pots[5], 0, 1000)
        new_scale        == Zone(pot_scale_select)
        new_octave       == fclamp((pot_octave * 499) \div 100000 - 2, -2, 2)
        freq1 == IF new_scale # c.current_scale
                 THEN [s \in Voices |-> BaseFreq(new_scale, c.octave_offset, s)]
                 ELSE c.str_freq
        freq2 == IF new_octave # c.octave_offset
                 THEN [s \in Voices |-> BaseFreq(new_scale, new_octave, s)]
                 ELSE freq1
    IN  [c EXCEPT !.pots = pots,
                  !.global_brightness = HalfToOne(pot_brightness),
                  !.global_decay = HalfToOne(pot_decay),
                  !.reverb_mix = pot_reverb_mix * 1000,
                  !.reverb_feedback = ReverbFeedback(pot_reverb_time),
                  !.reverb_set_feedback = ReverbFeedback(pot_reverb_time),
                  !.current_scale = new_scale,
                  !.octave_offset = new_octave,
                  !.str_freq = freq2,
                  !.damping_calls = [s \in Voices |-> 0],
                  !.brightness_calls = [s \in Voices |-> 0],
                  !.i = 0]

KalCtlBegin ==
    /\ firmware = "DigitalKalimba"
    /\ ctl.i = BLOCK_SIZE
    /\ \E p \in Pots : \E v \in KalPotRange(p) :
         ctl' = KalMapControls(ctl, [ctl.pots EXCEPT ![p] = v])
    /\ UNCHANGED <<firmware, notes, old, mix, led, disp, dobs, ksm, dual, auto, kal, kobs, obs>>

\* One iteration of the sample loop: every string gets SetDamping, SetFreq
\* and SetBrightness.
KalSampleStep(c, vibrato_sig) ==
    [c EXCEPT
       !.str_damping = [s \in Voices |-> c.global_decay],
       !.damping_calls = [s \in Voices |-> c.damping_calls[s] + 1],
       !.str_freq = [s \in Voices |->
                        FinalFreq(c.current_scale, c.octave_offset, s, vibrato_sig)],
       !.str_brightness = [s \in Voices |-> fclamp(c.global_brightness, 500000, 1000000)],
       !.brightness_calls = [s \in Voices |-> c.brightness_calls[s] + 1],
       !.i = c.i + 1]

KalCtlSample ==
    /\ firmware = "DigitalKalimba"
    /\ ctl.i < BLOCK_SIZE
    /\ \E vibrato_sig \in LfoLevels : ctl' = KalSampleStep(ctl, vibrato_sig)
    /\ UNCHANGED <<firmware, notes, old, mix, led, disp, dobs, ksm, dual, auto, kal, kobs, obs>>

\* pitch_freq = 20.0f * powf(40.0f, pot_pitch), in hundredths of Hz,
\* tabulated for the readings 0.0 and 1.0
KsmPitchFreq(pot_pitch) ==
    CASE pot_pitch = 0    -> 2000
      [] pot_pitch = 1000 -> 80000

\* lfo_rate = 0.01f * powf(500.0f, pot_lfo_rate), in thousandths of Hz,
\* tabulated for the readings 0.0 and 1.0
KsmLfoRate(pot_lfo_rate) ==
    CASE pot_lfo_rate = 0    -> 10
      [] pot_lfo_rate = 1000 -> 5000

\* bright_mod = fclamp(brightness + filter_sig * 0.3f * lfo_depth, 0, 1)
BrightMod(brightness, filter_sig, lfo_depth) ==
    fclamp(brightness + (filter_sig * (lfo_depth \div 1000) * 3) \div 10,
           0, 1000000)

\* Faulty variant: the tremolo LFO keeps the rate main() gave it.
TremoloFreq_Kept(lfo_rate) == 3500

\* lfo_tremolo.SetFreq(lfo_rate * 0.7f), in thousandths of Hz
TremoloFreq(lfo_rate) == (lfo_rate * 7) \div 10

\* lfo_filter.SetFreq(lfo_rate * 0.4f), in thousandths of Hz
FilterFreq(lfo_rate) == (lfo_rate * 4) \div 10

\* The three LFO rates are those main() sets before it starts the audio.
KsmCtlInit ==
    [pots |-> [p \in Pots |-> 0],
     pitch_freq |-> 22000, decay_amount |-> 900000, brightness |-> 500000,
     lfo_rate |-> 2000, lfo_depth |-> 500000,
     lfo_vibrato_freq |-> 5000, lfo_tremolo_freq |-> 3500,
     lfo_filter_freq |-> 2000,
     str_freq |-> 220000, str_damping |-> 900000,
     str_brightness |-> 500000,
     i |-> BLOCK_SIZE]

\* Readings each pot of the Karplus-Strong machine may show.  Pot A3 is the
\* trigger and has no part in this mapping.
KsmPotRange(p) ==
    CASE p \in {0, 4} -> {0, 1000}
      [] p = 3 -> {0}
      [] OTHER -> RawLevels

\* The head of the callback: the readings are mapped as they come, and the
\* damping is handed to the string.
KsmMapControls(c, pots) ==
    [c EXCEPT !.pots = pots,
              !.pitch_freq = KsmPitchFreq(pots[0]),
              !.decay_amount = pots[1] * 1000,
              !.brightness = pots[2] * 1000,
              !.lfo_rate = KsmLfoRate(pots[4]),
              !.lfo_depth = pots[5] * 1000,
              !.lfo_vibrato_freq = KsmLfoRate(pots[4]),
              !.lfo_tremolo_freq = TremoloFreq(KsmLfoRate(pots[4])),
              !.lfo_filter_freq = FilterFreq(KsmLfoRate(pots[4])),
              !.str_damping = pots[1] * 1000,
              !.i = 0]

KsmCtlBegin ==
    /\ firmware = "KarplusStrongMachine"
    /\ ctl.i = BLOCK_SIZE
    /\ \E p \in Pots : \E v \in KsmPotRange(p) :
         ctl' = KsmMapControls(ctl, [ctl.pots EXCEPT ![p] = v])
    /\ UNCHANGED <<firmware, notes, old, mix, led, disp, dobs, ksm, dual, auto, kal, kobs, obs>>

\* Faulty variant: the swept brightness is written back to the mapped
\* parameter.
KsmSampleStep_InPlace(c, vibrato_sig, filter_sig) ==
    [c EXCEPT
       !.str_freq = (c.pitch_freq * PitchMod(vibrato_sig, c.lfo_depth)) \div 100,
       !.str_brightness = BrightMod(c.brightness, filter_sig, c.lfo_depth),
       !.brightness = BrightMod(c.brightness, filter_sig, c.lfo_depth),
       !.i = c.i + 1]

\* One iteration of the sample loop: vibrato and filter sweep.
KsmSampleStep(c, vibrato_sig, filter_sig) ==
    [c EXCEPT
       !.str_freq = (c.pitch_freq * PitchMod(vibrato_sig, c.lfo_depth)) \div 100,
       !.str_brightness = BrightMod(c.brightness, filter_sig, c.lfo_depth),
       !.i = c.i + 1]

KsmCtlSample ==
    /\ firmware = "KarplusStrongMachine"
    /\ ctl.i < BLOCK_SIZE
    /\ \E vibrato_sig \in LfoLevels, filter_sig \in LfoLevels :
         ctl' = KsmSampleStep(ctl, vibrato_sig, filter_sig)
    /\ UNCHANGED <<firmware, notes, old, mix, led, disp, dobs, ksm, dual, auto, kal, kobs, obs>>

\* The mapped parameters, with the readings they were mapped from.
MappedParams(c) ==
    IF firmware = "DigitalKalimba"
    THEN <<c.pots, c.global_brightness, c.global_decay, c.reverb_mix,
           c.reverb_feedback, c.reverb_set_feedback, c.current_scale,
           c.octave_offset>>
    ELSE <<c.pots, c.pitch_freq, c.decay_amount, c.brightness, c.lfo_rate,
           c.lfo_depth>>

\* The mapping of the callback head applied to the readings in force.
MapControls(c) ==
    IF firmware = "DigitalKalimba" THEN KalMapControls(c, c.pots)
    ELSE KsmMapControls(c, c.pots)

CtlInit == IF firmware = "DigitalKalimba" THEN KalCtlInit ELSE KsmCtlInit

CtlNext == KalCtlBegin \/ KalCtlSample \/ KsmCtlBegin \/ KsmCtlSample

----------------------------------------------------------------------------
(* Display and main loop of the final firmware with OLED and of            *)
(* DigitalKalimba.cpp.  The main loop is cut at the points where a         *)
(* callback can come in between; main_pc is the statement it executes      *)
(* next.  Accesses to the variables the two contexts share are logged in   *)
(* dobs.acc.                                                               *)

DispInit ==
    [display_initialized |-> FALSE, display_available |-> FALSE,
     display_update_timer |-> 0, pitch_freq |-> 220, prev_pitch_freq |-> 0,
     lfo_depth |-> 500, prev_lfo_depth |-> 0, main_pc |-> "loop"]

DispObsInit ==
    [present |-> FALSE, invoked |-> FALSE, calls |-> 0, since |-> 0,
     gap |-> 0, drew |-> FALSE, wrote |-> FALSE, acc |-> {}, at |-> 0,
     tried |-> {}]

Access(var, ctx, kind, by) == [var |-> var, ctx |-> ctx, kind |-> kind, by |-> by]

\* The control-rate parameters of the firmware.
ControlParams ==
    IF firmware = "DigitalKalimba"
    THEN {"global_decay", "global_brightness", "reverb_mix", "reverb_feedback"}
    ELSE {"pitch_freq", "decay_amount", "brightness", "trigger_speed",
          "lfo_rate", "lfo_depth"}

\* What one audio callback touches of the shared variables.
CallbackAccesses ==
    {Access(v, "callback", k, "AudioCallback") :
        v \in ControlParams \cup {"led_timer", "display_update_timer"},
        k \in {"read", "write"}}

\* pitch_freq = 50.0f * powf(40.0f, pot_pitch), in Hz, for readings 0.0, 1.0
FinalPitchFreq(pot_pitch) ==
    CASE pot_pitch = 0    -> 50
      [] pot_pitch = 1000 -> 2000

\* One audio callback: the parameters are mapped (lfo_depth = pot_lfo_depth,
\* in thousandths), and every sample increments display_update_timer.
Callback(pitch_pots, depth_pots) ==
    /\ firmware \in DispFirmwares
    /\ disp.display_update_timer < MaxTimer
    /\ \E pot_pitch \in pitch_pots, pot_lfo_depth \in depth_pots :
         disp' = [disp EXCEPT
                    !.pitch_freq = IF firmware = "Final"
                                   THEN FinalPitchFreq(pot_pitch) ELSE @,
                    !.lfo_depth = IF firmware = "Final"
                                  THEN pot_lfo_depth ELSE @,
                    !.display_update_timer = @ + BLOCK_SIZE]
    /\ dobs' = [dobs EXCEPT !.since = @ + BLOCK_SIZE,
                            !.acc = @ \cup CallbackAccesses]
    /\ UNCHANGED <<firmware, notes, old, mix, led, ksm, dual, auto, kal, kobs, ctl, obs>>

\* The callback with the depth pot held at 0.5.
DispCallback == Callback(DispPotLevels, {500})

\* The callback with the depth pot moving in steps below the display's
\* threshold; the pots are moved in the callback that makes the display due
\* and held in between.
DispMovingCallback ==
    IF disp.display_update_timer + BLOCK_SIZE = DISPLAY_UPDATE_INTERVAL
    THEN Callback(DispPotLevels, DepthPotLevels)
    ELSE Callback({IF disp.pitch_freq = 2000 THEN 1000 ELSE 0},
                  {disp.lfo_depth})

\* Head of the main loop: hw.SetLed(led_timer > 0); if (!display_initialized)
DispMainLoop ==
    /\ firmware \in DispFirmwares
    /\ disp.main_pc = "loop"
    /\ disp' = [disp EXCEPT !.main_pc = IF disp.display_initialized
                                        THEN "check" ELSE "init"]
    /\ dobs' = [dobs EXCEPT !.invoked = FALSE,
                            !.acc = @ \cup {Access("led_timer", "main", "read", "main")}]
    /\ UNCHANGED <<firmware, notes, old, mix, led, ksm, dual, auto, kal, kobs, ctl, obs>>

\* uint8_t addresses[] = {0x3C, 0x3D};
addresses == <<60, 61>>

\* Where a display is wired: at one of the two addresses, or nowhere (0).
WiredAt == {0, 60, 61}

\* for (addr_idx = 0; addr_idx < 2 && !display_found; addr_idx++): configure
\* the address, display.Init(), draw the splash, then display_found = true and
\* display_available = true.
RECURSIVE ProbeLoop(_, _, _)
ProbeLoop(addr_idx, display_found, st) ==
    IF addr_idx < 2 /\ ~display_found
    THEN ProbeLoop(addr_idx + 1, TRUE,
                   [tried |-> st.tried \cup {addresses[addr_idx + 1]},
                    available |-> TRUE])
    ELSE st

\* Display initialisation on the first iteration.  display.Init() reports
\* nothing; the code sets display_available whether or not a display
\* answered.
DispMainInit ==
    /\ firmware \in DispFirmwares
    /\ disp.main_pc = "init"
    /\ LET probe == ProbeLoop(0, FALSE, [tried |-> {},
                                         available |-> disp.display_available])
       IN  /\ \E at \in WiredAt :
                dobs' = [dobs EXCEPT !.invoked = FALSE,
                                     !.present = at # 0,
                                     !.at = at,
                                     !.tried = probe.tried]
           /\ disp' = [disp EXCEPT !.display_available = probe.available,
                                   !.display_initialized = TRUE,
                                   !.main_pc = "check"]
    /\ UNCHANGED <<firmware, notes, old, mix, led, ksm, dual, auto, kal, kobs, ctl, obs>>

\* Faulty variant: the display is due one block early.
DisplayDue_Early(timer) == timer >= DISPLAY_UPDATE_INTERVAL - BLOCK_SIZE

\* if (display_update_timer >= DISPLAY_UPDATE_INTERVAL)
DisplayDue(timer) == timer >= DISPLAY_UPDATE_INTERVAL

\* The test of the timer; when it is due UpdateDisplay() is called.
DispMainCheck ==
    /\ firmware \in DispFirmwares
    /\ disp.main_pc = "check"
    /\ LET due == DisplayDue(disp.display_update_timer)
       IN  /\ disp' = [disp EXCEPT !.main_pc = IF due THEN "update" ELSE "loop"]
           /\ dobs' = [dobs EXCEPT
                         !.invoked = due,
                         !.calls = IF due THEN Min(@ + 1, 2) ELSE @,
                         !.gap = IF due THEN dobs.since ELSE @,
                         !.since = IF due THEN 0 ELSE @,
                         !.acc = @ \cup {Access("display_update_timer", "main",
                                                "read", "main")}]
    /\ UNCHANGED <<firmware, notes, old, mix, led, ksm, dual, auto, kal, kobs, ctl, obs>>

\* Faulty variant: UpdateDisplay stores the value it shows back into the
\* parameter.
DisplayAccesses_Store ==
    {Access(v, "main", k, "UpdateDisplay") :
        v \in ControlParams, k \in {"read", "write"}}

\* What UpdateDisplay() touches of the shared variables once it is past
\* the display_available test.
DisplayAccesses ==
    {Access(v, "main", "read", "UpdateDisplay") :
        v \in ControlParams \cup
              (IF firmware = "DigitalKalimba"
               THEN {"current_scale", "octave_offset", "notes_active"}
               ELSE {})}

\* Faulty variant: only the pitch is tested.
DisplayChanged_PitchOnly(d) ==
    IF firmware = "Final" THEN Abs(d.pitch_freq - d.prev_pitch_freq) >= 1
    ELSE TRUE

\* if (fabsf(pitch_freq - prev_pitch_freq) > CHANGE_THRESHOLD) changed = true;
\* if (fabsf(lfo_depth - prev_lfo_depth) > 0.01f) changed = true;
\* (pitch in whole Hz, threshold 0.5 Hz; depth in thousandths; the other
\* four pots are held still, so their tests add nothing after the first
\* draw).  DigitalKalimba redraws on every call.
DisplayChanged(d) ==
    IF firmware = "Final"
    THEN \/ Abs(d.pitch_freq - d.prev_pitch_freq) >= 1
         \/ Abs(d.lfo_depth - d.prev_lfo_depth) > 10
    ELSE TRUE

\* The body of UpdateDisplay().
DispMainUpdate ==
    /\ firmware \in DispFirmwares
    /\ disp.main_pc = "update"
    /\ LET draws == disp.display_available /\ DisplayChanged(disp)
       IN  /\ disp' = [disp EXCEPT
                         !.prev_pitch_freq = IF draws THEN disp.pitch_freq ELSE @,
                         !.prev_lfo_depth = IF draws THEN disp.lfo_depth ELSE @,
                         !.main_pc = "reset"]
           /\ dobs' = [dobs EXCEPT
                         !.invoked = FALSE,
                         !.gap = 0,
                         !.drew = @ \/ draws,
                         !.wrote = draws,
                         !.acc = IF disp.display_available
                                 THEN @ \cup DisplayAccesses ELSE @]
    /\ UNCHANGED <<firmware, notes, old, mix, led, ksm, dual, auto, kal, kobs, ctl, obs>>

\* display_update_timer = 0; then System::Delay(1)
DispMainReset ==
    /\ firmware \in DispFirmwares
    /\ disp.main_pc = "reset"
    /\ disp' = [disp EXCEPT !.display_update_timer = 0, !.main_pc = "loop"]
    /\ dobs' = [dobs EXCEPT
                  !.invoked = FALSE,
                  !.acc = @ \cup {Access("display_update_timer", "main",
                                         "write", "main")}]
    /\ UNCHANGED <<firmware, notes, old, mix, led, ksm, dual, auto, kal, kobs, ctl, obs>>

DispNext ==
    \/ DispCallback
    \/ DispMainLoop
    \/ DispMainInit
    \/ DispMainCheck
    \/ DispMainUpdate
    \/ DispMainReset

RedrawNext ==
    \/ DispMovingCallback
    \/ DispMainLoop
    \/ DispMainInit
    \/ DispMainCheck
    \/ DispMainUpdate
    \/ DispMainReset

----------------------------------------------------------------------------
(* The signal path of one sample, in every variant: the voices are         *)
(* processed and summed, then the sum goes through DC blocker, gain or     *)
(* reverb mix, limiter and output.  Amplitudes are in thousandths.  The    *)
(* strings, the DC blocker and the reverb are DaisySP objects: what they   *)
(* return is drawn from SignalLevels.  DigitalKalimba_v1 is the older      *)
(* variant kept in DigitalKalimba.cpp.                                     *)

MixFirmwares ==
    {"KarplusStrongMachine", "DualMode", "Fixed", "Monitored", "Final",
     "DigitalKalimba", "DigitalKalimba_v1"}

KalimbaFirmwares == {"DigitalKalimba", "DigitalKalimba_v1"}

\* What a string or the DC blocker returns.
SignalLevels == {-1000, 0, 1000}

\* What a reverb channel returns.
WetLevels == {-1000, 1000}

\* Values of reverb_mix, and of lfo_depth in the single-string variants.
MixLevels == {0, 500, 1000}

NumVoices == IF firmware \in KalimbaFirmwares THEN NUM_STRINGS ELSE 1

MixInit ==
    [pc |-> "voices", posted |-> FALSE,
     voices |-> [s \in 0 .. NUM_STRINGS - 1 |-> 0],
     calls |-> [s \in 0 .. NUM_STRINGS - 1 |-> 0],
     mixed |-> 0, dry |-> 0, wet |-> 0, reverb_mix |-> 0,
     limiter_in |-> 0, out_l |-> 0, out_r |-> 0,
     manual |-> FALSE,
     lfo_calls |-> [vibrato |-> 0, tremolo |-> 0, filter |-> 0]]

\* amp_mod: the tremolo.  DigitalKalimba: 1 - |tremolo_sig| * 0.3 * lfo_depth
\* with lfo_depth fixed at 0.1; the older kalimba has none; the
\* single-string variants: 1 - |tremolo_sig| * 0.5 * lfo_depth, in DualMode
\* only in manual mode and with lfo_depth > 0.01.
AmpMod(tremolo_sig, lfo_depth, manual) ==
    CASE firmware = "DigitalKalimba" ->
            1000 - (Abs(tremolo_sig) * 3 * (KAL_LFO_DEPTH \div 1000)) \div 10000
      [] firmware = "DigitalKalimba_v1" -> 1000
      [] firmware = "DualMode" /\ ~(manual /\ lfo_depth > 10) -> 1000
      [] OTHER -> 1000 - (Abs(tremolo_sig) * 5 * lfo_depth) \div 10000

\* The loop over the strings from string s on: Process() is called on each
\* and its output, after the tremolo, added to output.
RECURSIVE StringsLoop(_, _, _, _)
StringsLoop(s, outs, amp_mod, acc) ==
    IF s = NumVoices THEN acc
    ELSE StringsLoop(s + 1, outs, amp_mod,
                     [calls |-> [acc.calls EXCEPT ![s] = @ + 1],
                      output |-> acc.output + (outs[s] * amp_mod) \div 1000])

\* output *= (1.0f / NUM_STRINGS); the older kalimba has output *= 0.35f;
\* one string is not scaled.
PolyScale(output) ==
    CASE firmware = "DigitalKalimba" -> output \div NUM_STRINGS
      [] firmware = "DigitalKalimba_v1" -> (output * 35) \div 100
      [] OTHER -> output

\* The inputs of the tremolo, where the variant reads them.  Only the
\* magnitude of tremolo_sig is used.
TremoloLevels == IF firmware = "DigitalKalimba_v1" THEN {0} ELSE {0, 1000}

DepthLevels ==
    IF firmware \in KalimbaFirmwares THEN {KAL_LFO_DEPTH \div 1000}
    ELSE MixLevels

ModeLevels == IF firmware = "DualMode" THEN BOOLEAN ELSE {FALSE}

\* The Process() calls that one sample of DualMode's callback makes on each
\* LFO (counted for that firmware only): none in auto-trigger mode; in
\* manual mode one on each for the vibrato and the filter sweep, and for the
\* tremolo a second one inside the tremolo's own if-block.
LfoCalls(manual, lfo_depth) ==
    IF firmware = "DualMode" /\ manual
    THEN [vibrato |-> 1, filter |-> 1,
          tremolo |-> IF lfo_depth > 10 THEN 2 ELSE 1]
    ELSE [vibrato |-> 0, tremolo |-> 0, filter |-> 0]

\* The sample loop up to the sum of the voices.  What the sample before
\* left behind is not carried along: the locals are new in each iteration
\* and the sample's place in the output buffer is not written yet.
MixVoices ==
    /\ firmware \in MixFirmwares
    /\ mix.pc = "voices"
    /\ \E outs \in [0 .. NumVoices - 1 -> SignalLevels],
          tremolo_sig \in TremoloLevels, lfo_depth \in DepthLevels,
          manual \in ModeLevels :
         LET zero == [s \in 0 .. NUM_STRINGS - 1 |-> 0]
             r == StringsLoop(0, outs, AmpMod(tremolo_sig, lfo_depth, manual),
                              [calls |-> zero, output |-> 0])
         IN  mix' = [MixInit EXCEPT
                       !.pc = "post",
                       !.voices = [s \in 0 .. NUM_STRINGS - 1 |->
                                      IF s < NumVoices THEN outs[s] ELSE 0],
                       !.calls = r.calls,
                       !.manual = manual,
                       !.lfo_calls = LfoCalls(manual, lfo_depth),
                       !.mixed = PolyScale(r.output)]
    /\ UNCHANGED <<firmware, notes, old, ksm, dual, auto, kal, kobs, ctl, disp, dobs, led, obs>>

\* output *= 1.2f in DualMode, 1.3f in Fixed, Monitored and Final.
Boost(output) ==
    CASE firmware = "DualMode" -> (output * 12) \div 10
      [] firmware \in AutoFirmwares -> (output * 13) \div 10
      [] OTHER -> output

\* reverb_mono = (wet_l + wet_r) * 0.5f;
\* output = output + (reverb_mono * reverb_mix);
ReverbBlend(output, reverb_mono, reverb_mix) ==
    output + (reverb_mono * reverb_mix) \div 1000

\* tanhf(output * 1.2f) * 0.8f, with tanh(x) taken as
\* x (27 + x^2) / (27 + 9 x^2) for |x| <= 3 and as 1 or -1 beyond.
SoftLimit(output) ==
    LET x == fclamp((Abs(output) * 12) \div 100, 0, 300)
        y == (x * (270000 + x * x) * 8) \div (270000 + 9 * x * x)
    IN  IF output < 0 THEN -y ELSE y

\* Faulty variant: the right channel gets the signal inverted.
OutRight_Inverted(output) == -output

\* out[1][i] = output;
OutRight(output) == output

\* The inputs of the reverb mix, which only DigitalKalimba has.
ReverbLevels == IF firmware = "DigitalKalimba" THEN WetLevels ELSE {0}

ReverbMixLevels == IF firmware = "DigitalKalimba" THEN MixLevels ELSE {0}

\* The rest of the sample: DC blocker, gain or reverb mix, limiter, output.
MixPost ==
    /\ firmware \in MixFirmwares
    /\ mix.pc = "post"
    /\ \E dry \in SignalLevels, wet_l \in ReverbLevels, wet_r \in ReverbLevels,
          reverb_mix \in ReverbMixLevels :
         LET reverb_mono == (wet_l + wet_r) \div 2
             limiter_in ==
                 IF firmware = "DigitalKalimba"
                 THEN ReverbBlend(dry, reverb_mono, reverb_mix)
                 ELSE Boost(dry)
             output == SoftLimit(limiter_in)
         IN  mix' = [mix EXCEPT
                       !.pc = "voices", !.posted = TRUE,
                       !.voices = [s \in 0 .. NUM_STRINGS - 1 |-> 0],
                       !.mixed = 0,
                       !.dry = dry,
                       !.wet = IF firmware = "DigitalKalimba"
                               THEN reverb_mono ELSE 0,
                       !.reverb_mix = IF firmware = "DigitalKalimba"
                                      THEN reverb_mix ELSE 0,
                       !.limiter_in = limiter_in,
                       !.out_l = output,
                       !.out_r = OutRight(output)]
    /\ UNCHANGED <<firmware, notes, old, ksm, dual, auto, kal, kobs, ctl, disp, dobs, led, obs>>

MixNext == MixVoices \/ MixPost

----------------------------------------------------------------------------
(* The LED of KarplusStrongMachine_DualMode.cpp: the main loop, one        *)
(* iteration per millisecond.  since counts the iterations since the LED   *)
(* last came on, cycle is the length of the last complete on/off cycle,    *)
(* steady tells that the mode did not change during it, quiet that it has  *)
(* not changed since.                                                      *)

LED_BLINK_FAST == 6000

LED_BLINK_SLOW == 24000

\* Iterations of the main loop followed.
MaxLedRun == 48002

\* The boot button is pressed, if at all, within this many iterations.
MaxPressAt == 2

LedInit ==
    [led_timer |-> 0, current_mode |-> "MODE_AUTO_TRIGGER", led_state |-> FALSE,
     since |-> 0, cycle |-> 0, rose |-> FALSE, quiet |-> TRUE,
     steady |-> TRUE]

\* bool led_state = (led_timer % blink_period) < (blink_period / 2);
LedState(led_timer, blink_period) ==
    (led_timer % blink_period) < (blink_period \div 2)

\* One iteration of the main loop: button, led_timer++, LED, Delay(1).
LedMainLoop ==
    /\ firmware = "DualMode"
    /\ led.led_timer < MaxLedRun
    /\ \E rising_edge \in {FALSE, led.led_timer < MaxPressAt} :
         LET mode == IF ~rising_edge THEN led.current_mode
                     ELSE IF led.current_mode = "MODE_AUTO_TRIGGER"
                          THEN "MODE_MANUAL" ELSE "MODE_AUTO_TRIGGER"
             timer == led.led_timer + 1
             blink_period == IF mode = "MODE_AUTO_TRIGGER"
                             THEN LED_BLINK_FAST ELSE LED_BLINK_SLOW
             led_state == LedState(timer, blink_period)
             rose == led_state /\ ~led.led_state
         IN  led' = [led_timer |-> timer, current_mode |-> mode,
                     led_state |-> led_state,
                     since |-> IF rose THEN 0 ELSE led.since + 1,
                     cycle |-> IF rose THEN led.since + 1 ELSE led.cycle,
                     rose |-> rose,
                     quiet |-> rose \/ (led.quiet /\ ~rising_edge),
                     steady |-> IF rose THEN led.quiet /\ ~rising_edge
                                ELSE led.steady]
    /\ UNCHANGED <<firmware, notes, old, ksm, dual, auto, kal, kobs, ctl, disp, dobs, mix, obs>>

LedNext == LedMainLoop

----------------------------------------------------------------------------
(* The note display of DigitalKalimba.cpp: notes_active and                *)
(* note_activity_timer, which only the audio callback writes.  One step is *)
(* one sample; triggered is the set of voices whose flag was found set on  *)
(* it.                                                                     *)

NOTE_DISPLAY_TIME == 48000

\* A voice is triggered only while every timer is within this many samples
\* of its start or of its end.
MaxRetrigger == 2

NotesInit ==
    [notes_active |-> {}, note_activity_timer |-> [s \in Voices |-> 0],
     triggered |-> {}]

\* if (trigger) { notes_active[s] = true;
\*                note_activity_timer[s] = NOTE_DISPLAY_TIME; }
NoteTrigger(n, trig) ==
    [n EXCEPT !.notes_active = @ \cup trig,
              !.note_activity_timer =
                  [s \in Voices |-> IF s \in trig THEN NOTE_DISPLAY_TIME
                                    ELSE @[s]],
              !.triggered = trig]

\* Faulty variant: the flag stays when the timer runs out.
NoteDecay_Stays(n) ==
    [n EXCEPT !.note_activity_timer =
                  [s \in Voices |-> IF @[s] > 0 THEN @[s] - 1 ELSE @[s]]]

\* The loop at the end of the sample: if (note_activity_timer[s] > 0) {
\* note_activity_timer[s]--; if it is 0 now, notes_active[s] = false; }
NoteDecay(n) ==
    [n EXCEPT !.note_activity_timer =
                  [s \in Voices |-> IF @[s] > 0 THEN @[s] - 1 ELSE @[s]],
              !.notes_active =
                  {s \in @ : ~(n.note_activity_timer[s] = 1)}]

\* When the player (or the demo) may trigger: see MaxRetrigger.
RetriggerAllowed(n) ==
    \A s \in Voices :
        \/ n.note_activity_timer[s] <= MaxRetrigger
        \/ n.note_activity_timer[s] >= NOTE_DISPLAY_TIME - MaxRetrigger

NoteSample ==
    /\ firmware = "DigitalKalimba"
    /\ \E trig \in (IF RetriggerAllowed(notes) THEN SUBSET Pressable ELSE {{}}) :
         notes' = NoteDecay(NoteTrigger(notes, trig))
    /\ UNCHANGED <<firmware, ksm, dual, auto, kal, kobs, ctl, disp, dobs, mix,
                   led, old, obs>>

NotesNext == NoteSample

----------------------------------------------------------------------------
(* The older variant in DigitalKalimba.cpp: the main loop scans the        *)
(* buttons and sets button_triggered, the audio callback consumes the      *)
(* flags.  The main loop is cut at every statement of the scan, and the    *)
(* callback, which runs to completion, can come in at each cut.            *)
(* System::Delay(1) at the end of an iteration lasts twelve callback       *)
(* periods: the next iteration starts after a callback has run.            *)
(* History kept next to the program's state:                               *)
(*   owed      per voice, rising edges detected and not yet answered by an *)
(*             excitation (counted up to 2)                                *)
(*   triggers  per sample of the last callback, the voices excited         *)
(*   spurious  some excitation had no detected edge to answer              *)

OldInit ==
    [button_state |-> {}, button_triggered |-> {}, main_pc |-> "read",
     i |-> 0, current |-> FALSE, ran |-> TRUE,
     owed |-> [s \in Voices |-> 0], triggers |-> <<>>, spurious |-> FALSE]

\* bool current = !buttons[i].Read();
OldScanRead ==
    /\ firmware = "DigitalKalimba_v1"
    /\ old.main_pc = "read"
    /\ \E current \in (IF old.i \in Pressable THEN BOOLEAN ELSE {FALSE}) :
         old' = [old EXCEPT !.current = current, !.main_pc = "test"]
    /\ UNCHANGED <<firmware, ksm, dual, auto, kal, kobs, ctl, disp, dobs, mix,
                   led, notes, obs>>

\* if (current && !button_state[i]) button_triggered[i] = true;
OldScanTest ==
    /\ firmware = "DigitalKalimba_v1"
    /\ old.main_pc = "test"
    /\ LET edge == old.current /\ old.i \notin old.button_state
       IN  old' = [old EXCEPT
                     !.button_triggered = IF edge THEN @ \cup {old.i} ELSE @,
                     !.owed[old.i] = IF edge THEN Min(@ + 1, 2) ELSE @,
                     !.main_pc = "store"]
    /\ UNCHANGED <<firmware, ksm, dual, auto, kal, kobs, ctl, disp, dobs, mix,
                   led, notes, obs>>

\* button_state[i] = current; and the loop's i++
OldScanStore ==
    /\ firmware = "DigitalKalimba_v1"
    /\ old.main_pc = "store"
    /\ old' = [old EXCEPT
                 !.button_state = IF old.current THEN @ \cup {old.i}
                                  ELSE @ \ {old.i},
                 !.current = FALSE,
                 !.i = IF old.i + 1 = NUM_STRINGS THEN 0 ELSE old.i + 1,
                 !.ran = IF old.i + 1 = NUM_STRINGS THEN FALSE ELSE @,
                 !.main_pc = IF old.i + 1 = NUM_STRINGS THEN "delay"
                             ELSE "read"]
    /\ UNCHANGED <<firmware, ksm, dual, auto, kal, kobs, ctl, disp, dobs, mix,
                   led, notes, obs>>

\* System::Delay(1); loop_counter++;
OldDelay ==
    /\ firmware = "DigitalKalimba_v1"
    /\ old.main_pc = "delay"
    /\ old.ran
    /\ old' = [old EXCEPT !.main_pc = "read"]
    /\ UNCHANGED <<firmware, ksm, dual, auto, kal, kobs, ctl, disp, dobs, mix,
                   led, notes, obs>>

\* The audio callback: the sample loop consumes the flags.
OldCallback ==
    /\ firmware = "DigitalKalimba_v1"
    /\ LET r == SampleLoop(old.button_triggered, 0, <<>>)
           n == [s \in Voices |->
                    Cardinality({k \in 1 .. BLOCK_SIZE : s \in r.triggers[k]})]
       IN  old' = [old EXCEPT
                     !.button_triggered = r.button_triggered,
                     !.triggers = r.triggers,
                     !.ran = TRUE,
                     !.owed = [s \in Voices |->
                                  IF n[s] > @[s] THEN 0 ELSE @[s] - n[s]],
                     !.spurious = @ \/ \E s \in Voices : n[s] > old.owed[s]]
    /\ UNCHANGED <<firmware, ksm, dual, auto, kal, kobs, ctl, disp, dobs, mix,
                   led, notes, obs>>

OldNext ==
    \/ OldScanRead
    \/ OldScanTest
    \/ OldScanStore
    \/ OldDelay
    \/ OldCallback

----------------------------------------------------------------------------
(* Specifications: one per firmware image, and one for the two firmwares   *)
(* with a manual trigger.                                                  *)

InitAll ==
    /\ ksm = KsmInit
    /\ dual = DualInit
    /\ auto = AutoInit
    /\ kal = KalInit
    /\ kobs = KalObsInit
    /\ ctl = CtlInit
    /\ disp = DispInit
    /\ dobs = DispObsInit
    /\ mix = MixInit
    /\ led = LedInit
    /\ notes = NotesInit
    /\ old = OldInit
    /\ obs = ObsInit

KsmBoot == firmware = "KarplusStrongMachine" /\ InitAll

DualBoot == firmware = "DualMode" /\ InitAll

ManualBoot == firmware \in {"KarplusStrongMachine", "DualMode"} /\ InitAll

ManualNext == KsmNext \/ DualNext

SpecKsm == KsmBoot /\ [][KsmNext]_vars

SpecDual == DualBoot /\ [][DualNext]_vars

SpecManual == ManualBoot /\ [][ManualNext]_vars

AutoBoot == firmware \in AutoFirmwares /\ InitAll

SpecAuto == AutoBoot /\ [][AutoNext]_vars

KalBoot == firmware = "DigitalKalimba" /\ InitAll

SpecKalimba == KalBoot /\ [][KalNext]_vars

SpecKnob == KalBoot /\ [][KnobNext]_vars

MixBoot == firmware \in MixFirmwares /\ InitAll

SpecMix == MixBoot /\ [][MixNext]_vars

SpecLed == DualBoot /\ [][LedNext]_vars

SpecNotes == KalBoot /\ [][NotesNext]_vars

OldBoot == firmware = "DigitalKalimba_v1" /\ InitAll

SpecOld == OldBoot /\ [][OldNext]_vars

CtlBoot == firmware \in {"DigitalKalimba", "KarplusStrongMachine"} /\ InitAll

SpecControls == CtlBoot /\ [][CtlNext]_vars

DispBoot == firmware \in DispFirmwares /\ InitAll

SpecDisplay == DispBoot /\ [][DispNext]_vars

RedrawBoot == firmware = "Final" /\ InitAll

SpecRedraw == RedrawBoot /\ [][RedrawNext]_vars

----------------------------------------------------------------------------
(* Properties of the manual trigger.                                       *)

\* C1: in manual trigger mode two excitations are at least TRIGGER_LOCKOUT
\* samples apart, and no excitation happens on a sample that starts with a
\* nonzero lockout counter.
C1_LockoutSpacing ==
    (obs.mode = "manual" /\ obs.fired) =>
        /\ obs.lock_start = 0
        /\ obs.seen => obs.dist >= TRIGGER_LOCKOUT

\* C1 witness: a second excitation exactly TRIGGER_LOCKOUT samples after the
\* previous one.
C1_Witness ==
    /\ obs.mode = "manual" /\ obs.fired /\ obs.seen
    /\ obs.dist = TRIGGER_LOCKOUT

\* C2: after an excitation, a rising edge of the excite condition k samples
\* later excites again when k > 4800 and does not when k < 4800 (so an edge
\* at 3000 gives no second excitation and an edge at 5000 gives one).
C2_EdgeAfterLockout ==
    (obs.mode = "manual" /\ obs.seen /\ obs.rose) =>
        /\ obs.dist < TRIGGER_LOCKOUT => ~obs.fired
        /\ obs.dist > TRIGGER_LOCKOUT => obs.fired

\* C2 witness: a rising edge 5000 samples after an excitation excites again.
C2_Witness ==
    /\ obs.mode = "manual" /\ obs.seen /\ obs.rose
    /\ obs.dist = 5000 /\ obs.fired

\* The other example of C2: a rising edge 3000 samples after an excitation
\* is suppressed.
C2_SuppressedAt3000 ==
    /\ obs.mode = "manual" /\ obs.seen /\ obs.rose
    /\ obs.dist = 3000 /\ ~obs.fired

\* C9 (as claimed): with A3 held above the threshold since the last
\* excitation, the sample on which the lockout expires excites again.
C9_RetriggerWhileHeld ==
    (obs.mode = "manual" /\ obs.seen /\ obs.held /\ obs.active
        /\ obs.dist = TRIGGER_LOCKOUT) => obs.fired

\* C10 (as claimed): the threshold is 60%: no excitation on a reading below
\* 0.6, and a rise from below 0.6 to above 0.6 with the lockout expired
\* excites.
C10_Threshold60 ==
    obs.mode = "manual" =>
        /\ obs.fired => obs.pot >= 600
        /\ (obs.prev_pot < 600 /\ obs.pot > 600 /\ obs.lock_start = 0)
              => obs.fired

----------------------------------------------------------------------------
(* Properties of the dual-mode firmware.                                   *)

\* C6: in auto-trigger mode a sample excites the string exactly when it is
\* the AUTO_TRIGGER_INTERVAL-th sample since the previous excitation (or
\* since auto mode was entered), whatever the control readings.
C6_AutoPeriod ==
    obs.mode = "auto" => (obs.fired <=> obs.dist = AUTO_TRIGGER_INTERVAL)

\* C6 witness: a second automatic pluck, with pot A3 at 1.0.
C6_Witness ==
    /\ obs.mode = "auto" /\ obs.fired /\ obs.seen
    /\ obs.dist = AUTO_TRIGGER_INTERVAL /\ obs.pot = 1000

\* C8 (as claimed): in manual mode, moving A3 from 0.0 to 1.0 with the
\* lockout counter at zero excites the string on that sample.
C8_PotTriggersPluck ==
    (obs.mode = "manual" /\ obs.prev_pot = 0 /\ obs.pot = 1000
        /\ obs.lock_start = 0) => obs.fired

----------------------------------------------------------------------------
(* Properties of the auto-trigger variants.                                *)

\* C7: in the auto-trigger variants, while trigger_interval has stayed at
\* one value I since the previous excitation (or since the start), a sample
\* excites the string exactly when it is the I-th sample since then, and on
\* the exciting sample trigger_timer is reset to 0.
C7_ConstantInterval ==
    (firmware \in AutoFirmwares /\ auto.i > 0 /\ obs.was_steady) =>
        /\ obs.fired <=> obs.dist = auto.trigger_interval
        /\ obs.fired => auto.trigger_timer = 0

C7_Witness ==
    /\ firmware = "Final"
    /\ auto.i > 0
    /\ obs.was_steady /\ obs.seen /\ obs.fired
    /\ obs.dist = 15178 /\ auto.trigger_interval = 15178

----------------------------------------------------------------------------
(* Properties of the kalimba's button triggers.                            *)

\* C3: in DigitalKalimba every pending flag set in a callback gives its
\* voice Process(true) on exactly one sample (the first of that callback),
\* no voice gets Process(true) on a later sample, and at the end of the
\* callback all seven flags are false.
C3_FlagConsumedOnce ==
    /\ kobs.triggers[1] = kobs.set_now
    /\ \A j \in 2 .. BLOCK_SIZE : kobs.triggers[j] = {}
    /\ kal.button_triggered = {}

C3_Witness ==
    /\ kobs.set_now = {0, 1}
    /\ kobs.triggers[1] = {0, 1}
    /\ kobs.triggers[2] = {}
    /\ kal.button_triggered = {}

\* C4: a button held across scans has excited its voice exactly once since
\* it was pressed; a scan that sees a button pressed which the scan before
\* saw released excites the voice in that callback, however recent the
\* voice's previous excitation.
C4_HeldOnceRepressAgain ==
    \A b \in Pressable :
        /\ b \in kal.button_state => kobs.hold_count[b] = 1
        /\ (kobs.scanned /\ b \notin kobs.prev_state /\ b \in kal.button_state)
               => b \in kobs.triggers[1]

\* Voice 0 is excited again two scans (96 samples) after its last
\* excitation, the soonest a release and a new press can be seen; voice 1
\* has been held the whole time.
C4_Witness ==
    /\ kobs.scanned
    /\ 0 \in kobs.edges /\ 0 \in kobs.triggers[1] /\ kobs.prev_since[0] = 1
    /\ 1 \in kal.button_state /\ kobs.prev_since[1] = MaxSince
    /\ kobs.hold_count[1] = 1

\* C5: at a scan where the buttons of a non-empty set B show a rising edge,
\* the voices excited on the first sample of that callback are exactly
\* those of B.
C5_EdgesExciteTheirVoices ==
    (kobs.scanned /\ kobs.edges # {}) => kobs.triggers[1] = kobs.edges

\* Button 1 alone is pressed at the scan where the demo note of voice 0
\* was due.
C5_Witness ==
    /\ kobs.scanned /\ kobs.edges = {1} /\ kobs.triggers[1] = {1}
    /\ kal.demo_timer = DEMO_INTERVAL - 1 /\ kal.demo_note_index = 0

----------------------------------------------------------------------------
(* Properties of the control mapping.                                      *)

\* C11: in DigitalKalimba the reverb feedback, as mapped and as handed to
\* the reverb, lies in [0.6, 0.999] for every A5 reading, also outside
\* [0,1], and is therefore below 1.0.
C11_ReverbFeedbackRange ==
    firmware = "DigitalKalimba" =>
        /\ 600000 <= ctl.reverb_feedback /\ ctl.reverb_feedback <= 999000
        /\ 600000 <= ctl.reverb_set_feedback /\ ctl.reverb_set_feedback <= 999000
        /\ ctl.reverb_set_feedback < 1000000

C11_Witness ==
    /\ firmware = "DigitalKalimba"
    /\ ctl.pots[5] = 1300
    /\ ctl.reverb_set_feedback = 999000

\* C12 (as claimed): for every reading of the decay pot in [0,1] the
\* damping mapped from it and handed to SetDamping is below 1.0.
C12_DampingBelowUnity ==
    (0 <= ctl.pots[1] /\ ctl.pots[1] <= 1000) =>
        IF firmware = "DigitalKalimba"
        THEN /\ ctl.global_decay < 1000000
             /\ ctl.i > 0 => \A s \in Voices : ctl.str_damping[s] < 1000000
        ELSE /\ ctl.decay_amount < 1000000
             /\ ctl.str_damping < 1000000

\* C13 (as claimed): for every reading, also outside [0,1], the damping
\* and the brightness handed to SetDamping and SetBrightness lie in [0,1].
C13_ClampedAtUse ==
    IF firmware = "DigitalKalimba"
    THEN ctl.i > 0 =>
            \A s \in Voices :
                /\ 0 <= ctl.str_damping[s] /\ ctl.str_damping[s] <= 1000000
                /\ 0 <= ctl.str_brightness[s] /\ ctl.str_brightness[s] <= 1000000
    ELSE /\ 0 <= ctl.str_damping /\ ctl.str_damping <= 1000000
         /\ 0 <= ctl.str_brightness /\ ctl.str_brightness <= 1000000

\* C14: in DigitalKalimba the frequency handed to SetFreq in the sample
\* loop is above 0 and at most the Nyquist limit, for every scale, octave,
\* vibrato value and reading.
C14_FreqWithinNyquist ==
    (firmware = "DigitalKalimba" /\ ctl.i > 0) =>
        \A s \in Voices :
            0 < ctl.str_freq[s] /\ ctl.str_freq[s] <= NYQUIST_LIMIT

\* The highest note there is: scale 3, string 5 (B4), two octaves up, vibrato
\* at +1.0: 1979.471 Hz.
C14_Witness ==
    /\ firmware = "DigitalKalimba" /\ ctl.i > 0
    /\ ctl.current_scale = 3 /\ ctl.octave_offset = 2
    /\ ctl.str_freq[5] = 1979471

\* C15: while a block's samples are processed (from before the first to
\* after the last) every mapped parameter has the value the callback head
\* computed from the readings, and no sample step changes one.
C15_ParamsFixedInBlock ==
    /\ [](ctl.i < BLOCK_SIZE => MappedParams(ctl) = MappedParams(MapControls(ctl)))
    /\ [][ctl.i < BLOCK_SIZE => MappedParams(ctl') = MappedParams(ctl)]_vars

C15_Witness ==
    /\ firmware = "KarplusStrongMachine" /\ ctl.i = BLOCK_SIZE
    /\ ctl.pots[2] = 500 /\ ctl.pots[5] = 1000
    /\ ctl.brightness = 500000 /\ ctl.str_brightness = 800000

\* C16 (as claimed): in a callback of DigitalKalimba SetDamping and
\* SetBrightness are each called exactly once on each of the 7 voices.
C16_SetOncePerBlock ==
    (firmware = "DigitalKalimba" /\ ctl.i = BLOCK_SIZE /\ ctl # KalCtlInit) =>
        \A s \in Voices :
            ctl.damping_calls[s] = 1 /\ ctl.brightness_calls[s] = 1

----------------------------------------------------------------------------
(* Properties of the two execution contexts and of the display.            *)

\* The contexts that write, and that read or write, a variable.
Writers(v) == {a.ctx : a \in {x \in dobs.acc : x.var = v /\ x.kind = "write"}}

Users(v) == {a.ctx : a \in {x \in dobs.acc : x.var = v}}

\* C17 (as claimed): every variable that both the audio callback and the
\* main loop access is written by one of them only.
C17_SingleWriter ==
    \A v \in {a.var : a \in dobs.acc} :
        Cardinality(Users(v)) = 2 => Cardinality(Writers(v)) <= 1

\* C18 (as claimed): the control-rate parameters are written by the audio
\* callback and read by no other context.
C18_ParamsCallbackOnly ==
    \A v \in ControlParams : Users(v) \subseteq {"callback"}

\* C18 (amended): the control-rate parameters are written by the audio
\* callback only; the one access from another context is the read in
\* UpdateDisplay, in the main loop.
C18_ParamsWrittenByCallbackOnly ==
    \A a \in dobs.acc :
        (a.var \in ControlParams /\ a.ctx # "callback") =>
            a.kind = "read" /\ a.by = "UpdateDisplay"

C18_Witness ==
    /\ Access("reverb_feedback", "main", "read", "UpdateDisplay") \in dobs.acc
    /\ Access("reverb_feedback", "callback", "write", "AudioCallback") \in dobs.acc

\* C19: UpdateDisplay is called from the main loop only, and between two
\* consecutive calls at least DISPLAY_UPDATE_INTERVAL samples are processed.
C19_DisplayRateLimited ==
    /\ disp.main_pc = "update" => dobs.invoked
    /\ (dobs.invoked /\ dobs.calls >= 2) => dobs.gap >= DISPLAY_UPDATE_INTERVAL

C19_Witness ==
    /\ dobs.invoked /\ dobs.calls >= 2
    /\ dobs.gap = DISPLAY_UPDATE_INTERVAL

\* C20 (as claimed): with no display on the bus, display_available is
\* false after initialization and no UpdateDisplay call performs a display
\* operation.
C20_AbsentDisplayIsNoOp ==
    (disp.display_initialized /\ ~dobs.present) =>
        ~disp.display_available /\ ~dobs.drew

\* C21 (as claimed): the display is initialized at address 0x3C and, when no
\* display is found there, initialization is attempted at 0x3D.
C21_BothAddressesTried ==
    disp.display_initialized =>
        /\ 60 \in dobs.tried
        /\ dobs.at # 60 => 61 \in dobs.tried

----------------------------------------------------------------------------
(* Properties of the kalimba's demo mode.                                  *)

\* C22: in DigitalKalimba, once a scan has detected a rising edge, demo_mode
\* is false and no demo trigger is issued in that callback or any later one;
\* demo_mode never becomes true again.
C22_DemoStopsForGood ==
    /\ [](kobs.pressed_ever => ~kal.demo_mode /\ ~kobs.demo_fired)
    /\ [][~kal.demo_mode => ~kal'.demo_mode]_vars

\* A press is detected in the very callback in which the demo note of
\* voice 0 was due.
C22_Witness ==
    /\ kobs.pressed_ever /\ kobs.scanned /\ kobs.edges = {1}
    /\ kal.demo_timer = DEMO_INTERVAL - 1 /\ ~kal.demo_mode
    /\ 0 \notin kobs.triggers[1]

\* C23 (as claimed): while the demo runs, a note is triggered once per
\* DEMO_INTERVAL = 24000 audio samples (500 ms).
C23_DemoEvery24000Samples ==
    kobs.demo_fired => kobs.demo_gap = DEMO_INTERVAL

\* C24 (as claimed): a control that has moved by more than
\* POT_MOVE_THRESHOLD away from a nonzero value it had while the demo was
\* running has ended the demo, whether it moved at once or gradually.
C24_KnobEndsDemo ==
    (\E v \in kobs.pot_seen :
        Abs(kal.last_pot_values - v) > POT_MOVE_THRESHOLD) => ~kal.demo_mode

----------------------------------------------------------------------------
(* Properties of the exponential mappings and of the LFO rates.            *)

\* C27 (as claimed): the exponential mappings give 50 Hz and 2000 Hz for the
\* pitch and 0.1 Hz and 20 Hz for the LFO rate at the readings 0.0 and 1.0,
\* here in KarplusStrongMachine.cpp.
C27_ExponentialBounds ==
    (firmware = "KarplusStrongMachine" /\ ctl.i < BLOCK_SIZE) =>
        /\ ctl.pots[0] = 0 => ctl.pitch_freq = 5000
        /\ ctl.pots[0] = 1000 => ctl.pitch_freq = 200000
        /\ ctl.pots[4] = 0 => ctl.lfo_rate = 100
        /\ ctl.pots[4] = 1000 => ctl.lfo_rate = 20000

\* C28: in KarplusStrongMachine.cpp the tremolo LFO runs at 0.7 times and
\* the filter LFO at 0.4 times the frequency of the vibrato LFO, on every
\* sample from the first one on and after every change of the rate control.
C28_LfoRatios ==
    firmware = "KarplusStrongMachine" =>
        /\ 10 * ctl.lfo_tremolo_freq = 7 * ctl.lfo_vibrato_freq
        /\ 10 * ctl.lfo_filter_freq = 4 * ctl.lfo_vibrato_freq

\* The first sample of a callback that mapped the rate control at 0.0: the
\* rates main() had set are replaced.
C28_Witness ==
    /\ firmware = "KarplusStrongMachine"
    /\ ctl.i = 1 /\ ctl.pots[4] = 0
    /\ ctl.lfo_vibrato_freq = 10 /\ ctl.lfo_tremolo_freq = 7
    /\ ctl.lfo_filter_freq = 4

----------------------------------------------------------------------------
(* Properties of the signal path.                                          *)

\* C25 (as claimed): in both kalimba variants every voice's Process() is
\* called exactly once per sample, and for voice outputs of magnitude at
\* most 1 the sum after the polyphony scaling has magnitude at most 1.
C25_PolyphonyCannotClip ==
    (firmware \in KalimbaFirmwares /\ mix.pc = "post") =>
        /\ \A s \in 0 .. NUM_STRINGS - 1 : mix.calls[s] = 1
        /\ Abs(mix.mixed) <= 1000

\* C26 (as claimed): in DigitalKalimba the signal entering the limiter is
\* dry * (1 - reverb_mix) + wet * reverb_mix.
C26_LinearCrossfade ==
    (firmware = "DigitalKalimba" /\ mix.posted) =>
        mix.limiter_in =
            (mix.dry * (1000 - mix.reverb_mix) + mix.wet * mix.reverb_mix)
                \div 1000

\* C29: in every variant the value written to the left channel equals the
\* value written to the right channel, on every sample.
C29_MonoOutput == mix.out_l = mix.out_r

\* A sample of the dual-mode firmware that came out at 0.733, the limiter's
\* answer to 1.2.
C29_Witness ==
    /\ firmware = "DualMode" /\ mix.posted /\ mix.pc = "voices"
    /\ mix.limiter_in = 1200 /\ mix.out_l = 733 /\ mix.out_r = 733

----------------------------------------------------------------------------
(* Properties of the mode LED.                                             *)

\* C30 (as claimed): with one iteration of the main loop per millisecond the
\* LED completes an on/off cycle every 250 ms in auto-trigger mode and every
\* 1000 ms in manual mode.  (The LED's first coming on, in the first
\* iteration, ends no cycle.)
C30_BlinkRateShowsMode ==
    (firmware = "DualMode" /\ led.rose /\ led.steady /\ led.cycle > 1) =>
        led.cycle = IF led.current_mode = "MODE_AUTO_TRIGGER" THEN 250
                    ELSE 1000

----------------------------------------------------------------------------
(* Properties of the kalimba's tables and of its note display.             *)

C38_DemoSequence ==
    /\ kal.demo_note_index \in 0 .. NUM_STRINGS - 1
    /\ kobs.demo_fired =>
          /\ kobs.demo_last = (kobs.demo_prev + 1) % NUM_STRINGS
          /\ kobs.demo_last \in kobs.triggers[1]
          /\ kal.demo_note_index = (kobs.demo_last + 1) % NUM_STRINGS

\* The eighth demo note: voice 0 again, after voice 6.
C38_Witness ==
    /\ kobs.demo_fired /\ kobs.demo_prev = 6 /\ kobs.demo_last = 0
    /\ 0 \in kobs.triggers[1] /\ kal.demo_note_index = 1

\* C36: in DigitalKalimba, at the end of every sample and for every voice,
\* notes_active[s] is true exactly when note_activity_timer[s] > 0; a
\* trigger restarts the timer from NOTE_DISPLAY_TIME, and the timer never
\* goes below 0.
C36_NotesActiveIffTimer ==
    \A s \in Voices :
        /\ s \in notes.notes_active <=> notes.note_activity_timer[s] > 0
        /\ notes.note_activity_timer[s] \in 0 .. NOTE_DISPLAY_TIME
        /\ s \in notes.triggered =>
              notes.note_activity_timer[s] = NOTE_DISPLAY_TIME - 1

\* Voice 0 is triggered again on the sample on which voice 1's note runs
\* out: voice 0 restarts from the top, voice 1 goes inactive at 0.
C36_Witness ==
    /\ notes.triggered = {0}
    /\ notes.note_activity_timer[0] = NOTE_DISPLAY_TIME - 1
    /\ notes.note_activity_timer[1] = 1
    /\ notes.notes_active = {0, 1}

\* C35: in DualMode's manual mode each of the three LFOs is advanced by
\* exactly one Process() call per sample, whatever the LFO depth (so that
\* the tremolo LFO runs at 0.7 times the LFO rate).
C35_OneProcessPerSample ==
    (firmware = "DualMode" /\ mix.pc = "post" /\ mix.manual) =>
        /\ mix.lfo_calls.vibrato = 1
        /\ mix.lfo_calls.tremolo = 1
        /\ mix.lfo_calls.filter = 1

\* C33: in DualMode, however the callback interleaves with the main loop's
\* mode toggle, auto_trigger_timer is 0 whenever a completed toggle has left
\* the firmware in manual mode; so after a switch back to auto-trigger mode
\* the first pluck comes on the AUTO_TRIGGER_INTERVAL-th sample processed in
\* auto mode, and on no earlier one.
C33_TimerClearedInManual ==
    /\ (dual.current_mode = "MODE_MANUAL" /\ dual.main_pc = "poll") =>
            dual.auto_trigger_timer = 0
    /\ (obs.switched /\ obs.mode = "auto" /\ ~obs.seen) =>
            (obs.fired <=> obs.dist = AUTO_TRIGGER_INTERVAL)
    /\ (obs.switched /\ dual.current_mode = "MODE_AUTO_TRIGGER") =>
            dual.auto_trigger_timer = obs.gap

\* C33 witness: the first pluck after a switch back to auto-trigger mode,
\* on the 96000th sample of that mode.
C33_Witness ==
    /\ obs.switched /\ obs.mode = "auto" /\ ~obs.seen /\ obs.fired
    /\ obs.dist = AUTO_TRIGGER_INTERVAL
    /\ dual.current_mode = "MODE_AUTO_TRIGGER" /\ dual.main_pc = "poll"

\* C34: in the auto-trigger variants, also while A3 changes the interval, a
\* sample plucks exactly when the samples since the previous pluck (this one
\* counted) have reached the trigger_interval in force; after every sample
\* trigger_timer < trigger_interval; and when the interval is shortened to
\* no more than the count already elapsed, the first sample of that block
\* plucks.
C34_IntervalInForce ==
    (firmware \in AutoFirmwares /\ auto.i > 0) =>
        /\ obs.fired <=> obs.dist >= auto.trigger_interval
        /\ auto.trigger_timer < auto.trigger_interval
        /\ auto.trigger_timer = obs.gap
        /\ (auto.i > 1 /\ obs.fired) => obs.dist = auto.trigger_interval

\* C34 witness: the interval is cut from 15178 to 4800 samples when more
\* than 4800 have gone by since the last pluck; the first sample of the
\* block plucks.
C34_Witness ==
    /\ firmware = "Fixed" /\ auto.i = 1
    /\ obs.seen /\ obs.fired /\ ~obs.was_steady
    /\ auto.trigger_interval = 4800 /\ obs.dist > 4801
    /\ auto.trigger_timer = 0

\* C39: in the final firmware with OLED a call of UpdateDisplay made when no
\* parameter differs from its cached value by more than its threshold (0.5 Hz
\* for the pitch, 0.01 for the depth) writes nothing to the display and
\* leaves the cached values as they are; a call made when some parameter
\* differs by more redraws and sets every cached value to the parameter's
\* current value.
C39_UpdateDisplayIdempotent ==
    [][(firmware = "Final" /\ disp.main_pc = "update"
            /\ disp'.main_pc = "reset") =>
         IF \/ 2 * Abs(disp.pitch_freq - disp.prev_pitch_freq) > 1
            \/ 100 * Abs(disp.lfo_depth - disp.prev_lfo_depth) > 1000
         THEN /\ dobs'.wrote
              /\ disp'.prev_pitch_freq = disp.pitch_freq
              /\ disp'.prev_lfo_depth = disp.lfo_depth
         ELSE /\ ~dobs'.wrote
              /\ disp'.prev_pitch_freq = disp.prev_pitch_freq
              /\ disp'.prev_lfo_depth = disp.prev_lfo_depth]_vars

\* C39 witness: a call has just returned without drawing (no callback has
\* come since the timer was tested): the depth is 0.008 off its cached
\* value, which stays.
C39_Witness ==
    /\ firmware = "Final" /\ disp.main_pc = "reset"
    /\ disp.display_update_timer = DISPLAY_UPDATE_INTERVAL
    /\ dobs.drew /\ ~dobs.wrote
    /\ disp.pitch_freq = 2000 /\ disp.prev_pitch_freq = 2000
    /\ disp.lfo_depth = 508 /\ disp.prev_lfo_depth = 516

\* C32: in the older kalimba variant, wherever the callback comes in between
\* the statements of the main loop's button scan, no detected press is lost
\* and none is consumed twice: a detected rising edge is answered by exactly
\* one excitation of its voice, on the first sample of the next callback,
\* and no voice is excited without a detected press.
C32_NoPressLostOrDoubled ==
    /\ ~old.spurious
    /\ \A s \in Voices :
          /\ old.owed[s] \in {0, 1}
          /\ old.owed[s] = 1 <=> s \in old.button_triggered
    /\ \A k \in 2 .. Len(old.triggers) : old.triggers[k] = {}

\* C32 witness: the callback came in right after the scan had set the flag
\* of voice 1 and before it stored the button's state; voices 0 and 1 were
\* both excited on its first sample.
C32_Witness ==
    /\ firmware = "DigitalKalimba_v1"
    /\ old.main_pc = "store" /\ old.i = 1 /\ old.current
    /\ 1 \notin old.button_state
    /\ Len(old.triggers) = BLOCK_SIZE /\ old.triggers[1] = {0, 1}
    /\ old.button_triggered = {} /\ old.owed[0] = 0 /\ old.owed[1] = 0

====
